---------------------------- MODULE Spec2Model ----------------------------
(***************************************************************************)
(* PageRank calculator (src/pagerank/pagerank.py): the transition model,    *)
(* the sampling estimator and the iterative estimator, called in any order  *)
(* on one corpus object.                                                    *)
(*                                                                          *)
(* Pages are 1..N, in the order of the corpus dictionary's keys.  Python    *)
(* floats are modelled by exact rationals <<numerator, denominator>> in     *)
(* lowest terms with a positive denominator; <<0, 0>> stands for a division *)
(* by zero (Python raises ZeroDivisionError there).                         *)
(***************************************************************************)
EXTENDS Integers, Sequences, FiniteSets

\* ------------------------------------------------------------------ bounds
\* Largest corpus (number of pages) of Init.
MaxPages == 3
\* Largest sample count n passed to sample_pagerank (the smallest is -1).
MaxSamples == 2
\* A rank vector holding a denominator above this is not iterated further.
MaxDenominator == 10000
\* Largest corpus of LiveInit.
MaxLivePages == 4

\* --------------------------------------------------------- exact rationals
RECURSIVE GCD(_, _)
GCD(a, b) == IF b = 0 THEN a ELSE GCD(b, a % b)

Abs(x) == IF x < 0 THEN -x ELSE x

DivZero == <<0, 0>>
Zero == <<0, 1>>
One == <<1, 1>>
Half == <<1, 2>>

IsDivZero(a) == a[2] = 0

\* num/den in lowest terms, den > 0.
Rat(num, den) ==
    LET g == GCD(Abs(num), den)
    IN  <<num \div g, den \div g>>

RAdd(a, b) ==
    IF IsDivZero(a) \/ IsDivZero(b) THEN DivZero
    ELSE LET g == GCD(a[2], b[2])
             l == (a[2] \div g) * b[2]
         IN  Rat(a[1] * (l \div a[2]) + b[1] * (l \div b[2]), l)

RNeg(a) == <<-a[1], a[2]>>

RSub(a, b) == RAdd(a, RNeg(b))

RAbs(a) == <<Abs(a[1]), a[2]>>

RMul(a, b) ==
    IF IsDivZero(a) \/ IsDivZero(b) THEN DivZero
    ELSE LET g1 == GCD(Abs(a[1]), b[2])
             g2 == GCD(Abs(b[1]), a[2])
         IN  <<(a[1] \div g1) * (b[1] \div g2), (a[2] \div g2) * (b[2] \div g1)>>

\* a / k for an integer k >= 0 (a length); k = 0 is a division by zero.
RDivInt(a, k) == IF k = 0 THEN DivZero ELSE RMul(a, <<1, k>>)

RPositive(a) == a[1] > 0 /\ a[2] > 0

RNonNegative(a) == a[1] >= 0 /\ a[2] > 0

\* 0 <= a < 1/k and 0 <= a <= 1/k, without forming a[1] * k.
RBelowUnitFraction(a, k) == a[2] > 0 /\ a[1] >= 0 /\ a[1] <= (a[2] - 1) \div k

RWithinUnitFraction(a, k) == a[2] > 0 /\ a[1] >= 0 /\ a[1] <= a[2] \div k

\* x + y and x * y with each operand evaluated once, before the operation.
AddValues(x, y) == CHOOSE r \in {RAdd(a, b) : a \in {x}, b \in {y}} : TRUE

MulValues(x, y) == CHOOSE r \in {RMul(a, b) : a \in {x}, b \in {y}} : TRUE

\* Sum of f[p] over the pages 1..k.
RECURSIVE RSum(_, _)
RSum(f, k) == IF k = 0 THEN Zero ELSE RAdd(RSum(f, k - 1), f[k])

\* ------------------------------------------------------------------- state
VARIABLES
    corpus,          \* the corpus dictionary: page -> outbound set
    corpus0,         \* the corpus as crawl() returned it
    pc,              \* "idle", "sample" (in the loop of sample_pagerank) or "iterate"
    call,            \* the function called last
    outcome,         \* how that call ended: "none", "running", "returned" or the exception raised
    damping_factor,  \* argument of the call
    n,               \* argument of sample_pagerank
    page,            \* argument of transition_model / loop variable of iterate_pagerank
    samples,         \* sample_pagerank: the visit record
    i,               \* sample_pagerank: loop index
    pageRank,        \* iterate_pagerank: the rank vector being updated in place
    prevRank,        \* iterate_pagerank: copy taken at the start of the pass
    ret              \* the value returned by the call

vars == <<corpus, corpus0, pc, call, outcome, damping_factor, n, page,
          samples, i, pageRank, prevRank, ret>>

Keys(corp) == DOMAIN corp

Len0(corp) == Cardinality(DOMAIN corp)

Dampings == {Zero, Half, One}

\* Graphs crawl() can return on k pages: links stay inside the corpus and no
\* page links to itself.
Graphs(k) == [1..k -> SUBSET (1..k)]

IsGraph(g) == \A p \in DOMAIN g : g[p] \subseteq DOMAIN g /\ p \notin g[p]

Corpora(maxPages) ==
    UNION {{g \in Graphs(k) : IsGraph(g)} : k \in 0..maxPages}

NoMap == << >>

\* -------------------------------------------------------- transition_model
\* Variant: the link share is divided by len(corpus) instead of len(links).
transition_model_ShareOverCorpus(corp, pg, d) ==
    LET links == corp[pg]
        anti == RSub(One, d)
        base == [q \in Keys(corp) |-> RDivInt(anti, Len0(corp))]
    IN  IF Cardinality(links) = 0
        THEN [q \in Keys(corp) |-> RDivInt(One, Len0(corp))]
        ELSE [q \in Keys(corp) |->
                 IF q \in links
                 THEN RAdd(base[q], RDivInt(d, Len0(corp)))
                 ELSE base[q]]

\* Variant: no special case for a page without links.
transition_model_NoDanglingCase(corp, pg, d) ==
    LET links == corp[pg]
        anti == RSub(One, d)
        base == [q \in Keys(corp) |-> RDivInt(anti, Len0(corp))]
    IN  [q \in Keys(corp) |->
            IF q \in links
            THEN RAdd(base[q], RDivInt(d, Cardinality(links)))
            ELSE base[q]]

\* Lines 61-78.
transition_model(corp, pg, d) ==
    LET links == corp[pg]
        anti == RSub(One, d)
        base == [q \in Keys(corp) |-> RDivInt(anti, Len0(corp))]
    IN  IF Cardinality(links) = 0
        THEN [q \in Keys(corp) |-> RDivInt(One, Len0(corp))]
        ELSE [q \in Keys(corp) |->
                 IF q \in links
                 THEN RAdd(base[q], RDivInt(d, Cardinality(links)))
                 ELSE base[q]]

Raises(f) == \E q \in DOMAIN f : IsDivZero(f[q])

Init ==
    /\ corpus \in Corpora(MaxPages)
    /\ corpus0 = corpus
    /\ pc = "idle"
    /\ call = "none"
    /\ outcome = "none"
    /\ damping_factor = Zero
    /\ n = 0
    /\ page = 0
    /\ samples = << >>
    /\ i = 0
    /\ pageRank = NoMap
    /\ prevRank = NoMap
    /\ ret = NoMap

\* A caller evaluates transition_model(corpus, pg, d) for a page of the corpus.
TMCall ==
    /\ pc = "idle"
    /\ call = "none"
    /\ \E pg \in Keys(corpus), d \in Dampings :
         LET dist == transition_model(corpus, pg, d)
         IN  /\ call' = "transition_model"
             /\ page' = pg
             /\ damping_factor' = d
             /\ outcome' = IF Raises(dist) THEN "ZeroDivisionError" ELSE "returned"
             /\ ret' = IF Raises(dist) THEN NoMap ELSE dist
    /\ n' = 0
    /\ samples' = << >>
    /\ i' = 0
    /\ pageRank' = NoMap
    /\ prevRank' = NoMap
    /\ UNCHANGED <<corpus, corpus0, pc>>

\* ---------------------------------------------------------- sample_pagerank
Count(smp, pg) == Cardinality({k \in 1..Len(smp) : smp[k] = pg})

\* pageRank[page] = samples.count(page) / len(samples)
SampleRanks(corp, smp) ==
    [pg \in Keys(corp) |-> Rat(Count(smp, pg), Len(smp))]

\* numpy.random.choice(a, p=...) refuses weights that are negative or do not sum to 1.
ValidWeights(probability) ==
    /\ \A q \in DOMAIN probability : RNonNegative(probability[q])
    /\ RSum(probability, Cardinality(DOMAIN probability)) = One

\* The pages a weighted draw can return: those of positive weight.
Draws(probability) == {q \in DOMAIN probability : RPositive(probability[q])}

\* Variant: every pass reads the first sample.
CurrentPage_First(smp, k) == smp[1]

\* The page whose transition model the i-th pass of the loop uses (i from 0).
CurrentPage(smp, k) == smp[k + 1]

\* Lines 91-94: the initial page is drawn from list(corpus.keys());
\* random.choice raises IndexError on an empty list.  With n <= 0 the loop of
\* lines 96-99 has no pass and lines 101-103 return the ranks at once.
SampleStart ==
    /\ pc = "idle"
    /\ call = "none"
    /\ \E d \in Dampings, nn \in -1..MaxSamples :
         /\ damping_factor' = d
         /\ n' = nn
    /\ call' = "sample_pagerank"
    /\ IF Len0(corpus) = 0
       THEN /\ outcome' = "IndexError"
            /\ samples' = << >>
            /\ pc' = "idle"
            /\ ret' = NoMap
       ELSE /\ \E first \in Keys(corpus) : samples' = <<first>>
            /\ IF 0 < n'
               THEN /\ outcome' = "running"
                    /\ pc' = "sample"
                    /\ ret' = NoMap
               ELSE /\ outcome' = "returned"
                    /\ pc' = "idle"
                    /\ ret' = SampleRanks(corpus, samples')
    /\ i' = 0
    /\ page' = 0
    /\ pageRank' = NoMap
    /\ prevRank' = NoMap
    /\ UNCHANGED <<corpus, corpus0>>

\* Lines 96-99: one pass of `for i in range(n)`; after the last pass,
\* lines 101-103 return the ranks.
SampleStep ==
    /\ pc = "sample"
    /\ i < n
    /\ LET probability == transition_model(corpus, CurrentPage(samples, i), damping_factor)
       IN  IF Raises(probability)
           THEN /\ outcome' = "ZeroDivisionError"
                /\ pc' = "idle"
                /\ UNCHANGED <<samples, i, ret>>
           ELSE IF ~ValidWeights(probability)
           THEN /\ outcome' = "ValueError"
                /\ pc' = "idle"
                /\ UNCHANGED <<samples, i, ret>>
           ELSE /\ \E nextPage \in Draws(probability) : samples' = Append(samples, nextPage)
                /\ i' = i + 1
                /\ IF i' < n
                   THEN UNCHANGED <<outcome, pc, ret>>
                   ELSE /\ outcome' = "returned"
                        /\ pc' = "idle"
                        /\ ret' = SampleRanks(corpus, samples')
    /\ UNCHANGED <<corpus, corpus0, call, damping_factor, n, page, pageRank, prevRank>>

\* --------------------------------------------------------- iterate_pagerank
\* Lines 117-118: every page starts at 1 / len(corpus).
InitialRank(corp) == [pg \in Keys(corp) |-> RDivInt(One, Len0(corp))]

\* Line 123: algConst = (1 - d) / n.
AlgConst(corp, d) == RDivInt(RSub(One, d), Len0(corp))

\* Variant: a page without links is given links to all the other pages.
RewriteDangling_OtherPages(corp) ==
    [link \in Keys(corp) |->
        IF Cardinality(corp[link]) = 0 THEN Keys(corp) \ {link} ELSE corp[link]]

\* Lines 129-131: the inner loop stores corpus.keys() as the outbound set of
\* every page whose outbound set is empty.
RewriteDangling(corp) ==
    [link \in Keys(corp) |->
        IF Cardinality(corp[link]) = 0 THEN Keys(corp) ELSE corp[link]]

\* Lines 128-134: sumAlg for `pg`, read from the rank vector `rank`.
RECURSIVE SumAlg(_, _, _, _)
SumAlg(corp, rank, pg, k) ==
    IF k = 0 THEN Zero
    ELSE LET rest == SumAlg(corp, rank, pg, k - 1)
         IN  IF pg \in corp[k]
             THEN AddValues(rest, RDivInt(rank[k], Cardinality(corp[k])))
             ELSE rest

\* Line 135: the rank vector after the assignment to pageRank[pg].  The sum
\* is read from pageRank itself, which already holds this pass's values of
\* the pages before pg.
UpdateRank(corp, rank, pg, d) ==
    [rank EXCEPT ![pg] =
        AddValues(AlgConst(corp, d), MulValues(d, SumAlg(corp, rank, pg, Len0(corp))))]

\* Lines 137-141: max_change < 0.001, i.e. every page changed by less than 0.001.
ThresholdInverse == 1000

Converged(prev, rank) ==
    \A pg \in DOMAIN rank :
        RBelowUnitFraction(RAbs(RSub(prev[pg], rank[pg])), ThresholdInverse)

\* The ranks the model follows: exact values whose denominators are within
\* MaxDenominator (a run leaving this range is not continued).
Representable(rank) == \A pg \in DOMAIN rank : rank[pg][2] <= MaxDenominator

\* Lines 115-126: initial ranks, algConst (a division by len(corpus)), and the
\* copy that opens the first pass.
IterStart(d) ==
    /\ pc = "idle"
    /\ call = "none"
    /\ call' = "iterate_pagerank"
    /\ damping_factor' = d
    /\ IF IsDivZero(AlgConst(corpus, d))
       THEN /\ outcome' = "ZeroDivisionError"
            /\ pc' = "idle"
            /\ pageRank' = NoMap
            /\ prevRank' = NoMap
            /\ page' = 0
       ELSE /\ outcome' = "running"
            /\ pc' = "iterate"
            /\ pageRank' = InitialRank(corpus)
            /\ prevRank' = InitialRank(corpus)
            /\ page' = 1
    /\ n' = 0
    /\ samples' = << >>
    /\ i' = 0
    /\ ret' = NoMap
    /\ UNCHANGED <<corpus, corpus0>>

\* Lines 127-135: the body of `for page in pageRank` for one page.
IterPage ==
    /\ pc = "iterate"
    /\ page <= Len0(corpus)
    /\ Representable(pageRank)
    /\ corpus' = RewriteDangling(corpus)
    /\ pageRank' = UpdateRank(corpus', pageRank, page, damping_factor)
    /\ page' = page + 1
    /\ UNCHANGED <<corpus0, pc, call, outcome, damping_factor, n, samples, i, prevRank, ret>>

\* Lines 136-144 and 126: the convergence test at the end of a pass; either
\* the vector is returned or the next pass starts from a fresh copy.
IterCheck ==
    /\ pc = "iterate"
    /\ page > Len0(corpus)
    /\ IF Converged(prevRank, pageRank)
       THEN /\ ret' = pageRank
            /\ outcome' = "returned"
            /\ pc' = "idle"
            /\ pageRank' = NoMap
            /\ prevRank' = NoMap
            /\ page' = 0
       ELSE /\ prevRank' = pageRank
            /\ page' = 1
            /\ UNCHANGED <<ret, outcome, pc, pageRank>>
    /\ UNCHANGED <<corpus, corpus0, call, damping_factor, n, samples, i>>

\* The caller is done with the result of the last call (main prints it and
\* goes on); only the corpus object lives on.
Forget ==
    /\ pc = "idle"
    /\ call # "none"
    /\ call' = "none"
    /\ outcome' = "none"
    /\ damping_factor' = Zero
    /\ n' = 0
    /\ page' = 0
    /\ samples' = << >>
    /\ i' = 0
    /\ pageRank' = NoMap
    /\ prevRank' = NoMap
    /\ ret' = NoMap
    /\ UNCHANGED <<corpus, corpus0, pc>>

\* ----------------------------------------------------------- specifications
\* The whole program: the three functions, called in any order on one corpus.
Next ==
    \/ TMCall
    \/ SampleStart
    \/ SampleStep
    \/ \E d \in Dampings : IterStart(d)
    \/ IterPage
    \/ IterCheck
    \/ Forget

Spec == Init /\ [][Next]_vars

\* The transition model and the iterative estimator.
IterNext ==
    \/ TMCall
    \/ \E d \in Dampings : IterStart(d)
    \/ IterPage
    \/ IterCheck
    \/ Forget

IterSpec == Init /\ [][IterNext]_vars

\* One call of the sampling estimator on the corpus as crawled.
SampleNext ==
    \/ SampleStart
    \/ SampleStep

SampleSpec == Init /\ [][SampleNext]_vars

\* The iterative estimator run to the end of its loop.  On a corpus where
\* every page has exactly one outbound link, and with d = 0 or d = 1, every
\* rank stays a multiple of 1 / len(corpus), so MaxDenominator never cuts a
\* run short.  The interpreter runs the loop without pause: a step that can
\* be taken is taken.
SingleLinkCorpora(maxPages) ==
    UNION {{[p \in 1..k |-> {f[p]}] : f \in {h \in [1..k -> 1..k] : \A p \in 1..k : h[p] # p}} :
           k \in 0..maxPages}

LiveInit ==
    /\ corpus \in SingleLinkCorpora(MaxLivePages)
    /\ corpus0 = corpus
    /\ pc = "idle"
    /\ call = "none"
    /\ outcome = "none"
    /\ damping_factor = Zero
    /\ n = 0
    /\ page = 0
    /\ samples = << >>
    /\ i = 0
    /\ pageRank = NoMap
    /\ prevRank = NoMap
    /\ ret = NoMap

LiveNext ==
    \/ \E d \in {Zero, One} : IterStart(d)
    \/ IterPage
    \/ IterCheck
    \/ Forget

LiveSpec ==
    LiveInit /\ [][LiveNext]_vars /\ WF_vars(IterPage) /\ WF_vars(IterCheck)

\* ------------------------------------------------------------------ claims
NumPages == Len0(corpus)

Returned(f) == call = f /\ outcome = "returned"

Ended(f) == call = f /\ outcome \notin {"none", "running"}

\* |x - 1| <= 1e-6
NearOne(x) == RWithinUnitFraction(RAbs(RSub(x, One)), 1000000)

\* C1: on a corpus that satisfies the graph invariants, transition_model
\* returns for every page and every d a distribution whose values sum to 1
\* within 1e-6.
C1_TransitionSumsToOne ==
    (Ended("transition_model") /\ IsGraph(corpus)) =>
        /\ outcome = "returned"
        /\ NearOne(RSum(ret, NumPages))

C1_Witness ==
    /\ Returned("transition_model")
    /\ IsGraph(corpus)
    /\ damping_factor = Half
    /\ NumPages = 3
    /\ Cardinality(corpus[page]) = 2

\* The random-surfer distribution as the specification words it.
RandomSurfer(corp, pg, d) ==
    [q \in Keys(corp) |->
        IF corp[pg] = {}
        THEN RDivInt(One, Len0(corp))
        ELSE IF q \in corp[pg]
        THEN RAdd(RDivInt(RSub(One, d), Len0(corp)), RDivInt(d, Cardinality(corp[pg])))
        ELSE RDivInt(RSub(One, d), Len0(corp))]

\* C2: transition_model returns exactly the random-surfer distribution, over
\* the key set of the corpus: 1/N everywhere for a page without links (no
\* division by zero is raised), and otherwise (1-d)/N + d/|L| on the linked
\* pages and (1-d)/N on the others.
C2_TransitionIsRandomSurfer ==
    (Ended("transition_model") /\ IsGraph(corpus)) =>
        /\ outcome = "returned"
        /\ DOMAIN ret = Keys(corpus)
        /\ ret = RandomSurfer(corpus, page, damping_factor)

C2_Witness ==
    /\ Returned("transition_model")
    /\ IsGraph(corpus)
    /\ damping_factor = Half
    /\ NumPages = 3
    /\ corpus[page] = {}

\* The effective outbound view of the corpus as crawled: a page without links
\* counts as linking to every page.
EffectiveOutbound(corp) ==
    [q \in Keys(corp) |-> IF corp[q] = {} THEN Keys(corp) ELSE corp[q]]

\* One simultaneous pass: every new rank is computed from the vector prev.
SimultaneousPass(corp, prev, d) ==
    [pg \in Keys(corp) |->
        RAdd(RDivInt(RSub(One, d), Len0(corp)),
             RMul(d, SumAlg(EffectiveOutbound(corp), prev, pg, Len0(corp))))]

\* C3: at the end of each pass of iterate_pagerank the rank vector is the
\* simultaneous update of the previous pass's vector: no new rank depends on
\* a rank already updated in the same pass.
C3_PassReadsPreviousVector ==
    (pc = "iterate" /\ page > NumPages) =>
        pageRank = SimultaneousPass(corpus0, prevRank, damping_factor)

\* C4: iterate_pagerank never changes the corpus: at every point the outbound
\* set of every page is the one the corpus was built with.
C4_CorpusNeverMutated == corpus = corpus0

\* C5: the convergence loop of iterate_pagerank always terminates.
C5_IterationTerminates == (pc = "iterate") ~> (pc = "idle")

\* C6: the vector iterate_pagerank returns when the loop stops on the 0.001
\* threshold has only non-negative values and sums to 1 within 1e-6.
C6_IterateRanksSumToOne ==
    Returned("iterate_pagerank") =>
        /\ \A pg \in DOMAIN ret : RNonNegative(ret[pg])
        /\ NearOne(RSum(ret, NumPages))

\* C7: for a non-empty corpus and n >= 1, sample_pagerank raises nothing,
\* every recorded visit is a page of the corpus, the visit recorded last (so,
\* as this holds after every step, every visit after the first) is a page of
\* positive weight in the transition model of the visit right before it, and
\* at return there are exactly n + 1 visits, each page's rank is its visit
\* count over n + 1, and the ranks sum to exactly 1.
C7_SampleVisits ==
    (call = "sample_pagerank" /\ n >= 1 /\ NumPages >= 1) =>
        /\ outcome \in {"running", "returned"}
        /\ \A k \in 1..Len(samples) : samples[k] \in Keys(corpus)
        /\ Len(samples) = i + 1
        /\ i >= 1 =>
               RPositive(transition_model(corpus, samples[i], damping_factor)[samples[i + 1]])
        /\ outcome = "returned" =>
               /\ Len(samples) = n + 1
               /\ DOMAIN ret = Keys(corpus)
               /\ \A pg \in Keys(corpus) : ret[pg] = Rat(Count(samples, pg), n + 1)
               /\ RSum(ret, NumPages) = One

C7_Witness ==
    /\ Returned("sample_pagerank")
    /\ n = 2
    /\ NumPages = 3
    /\ damping_factor = One
    /\ Len(samples) = 3
    /\ samples[1] = samples[3]
    /\ samples[1] # samples[2]

\* C8: on an empty corpus both estimators fail with a configuration error:
\* no rank vector, no division by N = 0, no draw from the empty page set.
C8_EmptyCorpusConfigurationError ==
    (NumPages = 0 /\ (Ended("sample_pagerank") \/ Ended("iterate_pagerank"))) =>
        /\ outcome = "ConfigurationError"
        /\ ret = NoMap

\* C9: with n < 1, sample_pagerank (on a non-empty corpus) rejects the call
\* with an invalid-parameter error before it draws the initial page, records
\* a visit or returns a rank vector.
C9_RejectsNonPositiveCount ==
    (call = "sample_pagerank" /\ n < 1 /\ NumPages >= 1) =>
        /\ outcome = "InvalidParameter"
        /\ samples = << >>
        /\ ret = NoMap

=============================================================================
